---- MODULE Spec2Model ----
(***************************************************************************)
(* Model of src/app/components/phone-engine-demo.tsx: the phoneEngine      *)
(* normalization function and the PhoneEngineDemo component that keeps the *)
(* registry of country configurations.                                     *)
(*                                                                         *)
(* Strings are sequences of one-character strings, so that prefixing,      *)
(* startsWith and replaceAll are computed character by character.          *)
(* JavaScript objects are functions from field names to values; a field    *)
(* that is not in the domain reads as Undefined.                           *)
(***************************************************************************)
EXTENDS Integers, Sequences, FiniteSets, TLC

VARIABLES phoneNumber, result, config, countryConfigs, defaultConfig, last

vars == <<phoneNumber, result, config, countryConfigs, defaultConfig, last>>

(***************************************************************************)
(* Bounds on the inputs.                                                   *)
(***************************************************************************)
MaxRawLen == 2
MaxNationalLen == 2

(***************************************************************************)
(* Values.                                                                 *)
(***************************************************************************)
Undefined == "undefined"
Null == [null |-> TRUE]
EmptyObject == [f \in {} |-> f]
EmptyString == << >>
Space == " "
Nbsp == "NBSP"
Raised == [raised |-> TRUE]

\* The countries the settings Select offers; "SA" behaves as "US" and is left out.
Countries == {"EG", "US"}
FallbackCountry == "EG"
\* phoneNumber.country: a country, or undefined for a non-geographic number.
ParsedCountries == Countries \cup {Undefined}
Digits == {"0", "1"}
RawChars == {"1", Space, Nbsp}
Whitespace == {Space, Nbsp}
TrunkPrefixes == {EmptyString, <<"9">>}

RECURSIVE StringsUpTo(_, _)
StringsUpTo(chars, n) ==
  IF n = 0 THEN {EmptyString}
  ELSE LET shorter == StringsUpTo(chars, n - 1)
       IN shorter \cup {Append(s, c) : s \in shorter, c \in chars}

RawStrings == StringsUpTo(RawChars, MaxRawLen)
NationalNumbers == StringsUpTo(Digits, MaxNationalLen) \ {EmptyString}

(***************************************************************************)
(* JavaScript helpers.                                                     *)
(***************************************************************************)
\* obj.field
Get(obj, field) == IF field \in DOMAIN obj THEN obj[field] ELSE Undefined

\* s.startsWith("0")
StartsWithZero(s) == Len(s) > 0 /\ s[1] = "0"

RECURSIVE ReplaceFirstSpace(_)
ReplaceFirstSpace(s) ==
  IF s = EmptyString THEN s
  ELSE IF Head(s) = Space THEN Tail(s)
  ELSE <<Head(s)>> \o ReplaceFirstSpace(Tail(s))

\* number.replaceAll(' ', '')
ReplaceAllSpaces(s) == SelectSeq(s, LAMBDA c : c # Space)

(***************************************************************************)
(* The external parser, seen through what phoneEngine uses of it.          *)
(***************************************************************************)
ParseThrows == [kind |-> "throws"]
ParseUndefined == [kind |-> "undefined"]
ParsedNumbers(nationalNumbers) ==
  [kind : {"number"}, country : ParsedCountries, nationalNumber : nationalNumbers,
   valid : BOOLEAN, possible : BOOLEAN]
ParseOutcomes(nationalNumbers) ==
  {ParseThrows, ParseUndefined} \cup ParsedNumbers(nationalNumbers)

CountryCallingCode(country) ==
  CASE country = "EG" -> <<"2", "0">>
    [] country = "US" -> <<"1">>
    [] OTHER -> <<"8", "0", "0">>

\* phoneNumber.format('E.164')
FormatE164(parsed) ==
  <<"+">> \o CountryCallingCode(parsed.country) \o parsed.nationalNumber

(***************************************************************************)
(* phoneEngine                                                             *)
(***************************************************************************)
DefaultOptions == [country |-> "", trunkPrefix |-> EmptyString, addLeadingZero |-> FALSE]

\* { country: "", trunkPrefix: "", addLeadingZero: false, ...options }
InitialConfig(options) == options @@ DefaultOptions

EffectiveConfigMerged(options, configs, parsed) ==
  IF parsed.country \in DOMAIN configs
  THEN configs[parsed.country] @@ InitialConfig(options)
  ELSE InitialConfig(options)

\* if (countryConfigs[phoneNumber.country]) config = countryConfigs[phoneNumber.country]
EffectiveConfig(options, configs, parsed) ==
  IF parsed.country \in DOMAIN configs
  THEN configs[parsed.country]
  ELSE InitialConfig(options)

ProcessedNumberAlwaysZero(cfg, nationalNumber) ==
  IF Get(cfg, "addLeadingZero") = TRUE
  THEN <<"0">> \o nationalNumber
  ELSE nationalNumber

\* if (config.addLeadingZero && !processedNumber.startsWith("0")) processedNumber = '0' + ...
ProcessedNumber(cfg, nationalNumber) ==
  IF Get(cfg, "addLeadingZero") = TRUE /\ ~StartsWithZero(nationalNumber)
  THEN <<"0">> \o nationalNumber
  ELSE nationalNumber

\* config.trunkPrefix ? `${config.trunkPrefix}${processedNumber}` : processedNumber
ForAsterisk(cfg, processedNumber) ==
  IF Get(cfg, "trunkPrefix") # Undefined /\ Get(cfg, "trunkPrefix") # EmptyString
  THEN Get(cfg, "trunkPrefix") \o processedNumber
  ELSE processedNumber

IsValidOnly(parsed) == parsed.valid

\* phoneNumber.isValid() && phoneNumber.isPossible()
IsValid(parsed) == parsed.valid /\ parsed.possible

\* the catch clause and the !phoneNumber return
FailedResult == [e164 |-> EmptyString, forAsterisk |-> EmptyString, isValid |-> FALSE]

NumberResultNoSentinel(number, cfg, parsed) ==
  LET isValid == IsValid(parsed)
      forAsterisk == ForAsterisk(cfg, ProcessedNumber(cfg, parsed.nationalNumber))
  IN [e164 |-> FormatE164(parsed),
      forAsterisk |-> IF isValid /\ parsed.country = Get(cfg, "country")
                      THEN forAsterisk
                      ELSE ReplaceAllSpaces(number),
      isValid |-> isValid]

\* the final return statement
NumberResult(number, cfg, parsed) ==
  LET isValid == IsValid(parsed)
      forAsterisk == ForAsterisk(cfg, ProcessedNumber(cfg, parsed.nationalNumber))
  IN [e164 |-> IF isValid THEN FormatE164(parsed) ELSE <<"-", "-", "-">>,
      forAsterisk |-> IF isValid /\ parsed.country = Get(cfg, "country")
                      THEN forAsterisk
                      ELSE ReplaceAllSpaces(number),
      isValid |-> isValid]

OnParseErrorRethrown == Raised

\* try { parsePhoneNumber(...) } catch (error) { return {...} }
OnParseError == FailedResult

phoneEngine(number, options, configs, parsed) ==
  CASE parsed.kind = "throws" -> OnParseError
    [] parsed.kind = "undefined" -> FailedResult
    [] OTHER -> NumberResult(number, EffectiveConfig(options, configs, parsed), parsed)

(***************************************************************************)
(* PhoneEngineDemo: the component's state and handlers.                    *)
(***************************************************************************)
Other == [op |-> "other"]

Init ==
  /\ phoneNumber = EmptyString
  /\ result = Null
  /\ config = [country |-> "EG", trunkPrefix |-> EmptyString, addLeadingZero |-> FALSE]
  /\ countryConfigs = EmptyObject
  /\ defaultConfig = "EG"
  /\ last = Other

\* formatIncompletePhoneNumber writes the digits typed, grouped with ordinary spaces
TypedNumbers == {EmptyString, <<"1">>, <<"1", Space, "0">>}
\* the national numbers the parser reports for what was typed
TypedNationalNumbers == {<<"0", "1">>, <<"1", "0">>}

handlePhoneNumberChange ==
  /\ \E formatted \in TypedNumbers : phoneNumber' = formatted
  /\ last' = Other
  /\ UNCHANGED <<result, config, countryConfigs, defaultConfig>>

\* countryConfigs[defaultConfig] || {}
DefaultOptionsArgument ==
  IF defaultConfig \in DOMAIN countryConfigs THEN countryConfigs[defaultConfig] ELSE EmptyObject

handleProcess ==
  \E parsed \in ParseOutcomes(TypedNationalNumbers) :
    LET processed == phoneEngine(phoneNumber, DefaultOptionsArgument, countryConfigs, parsed)
    IN /\ result' = IF processed = Raised THEN Null ELSE processed
       /\ last' = [op |-> "call", options |-> DefaultOptionsArgument, parsed |-> parsed]
       /\ UNCHANGED <<phoneNumber, config, countryConfigs, defaultConfig>>

setConfigCountry ==
  /\ \E value \in Countries : config' = [config EXCEPT !.country = value]
  /\ last' = Other
  /\ UNCHANGED <<phoneNumber, result, countryConfigs, defaultConfig>>

setConfigTrunkPrefix ==
  /\ \E value \in TrunkPrefixes : config' = [config EXCEPT !.trunkPrefix = value]
  /\ last' = Other
  /\ UNCHANGED <<phoneNumber, result, countryConfigs, defaultConfig>>

setConfigAddLeadingZero ==
  /\ \E checked \in BOOLEAN : config' = [config EXCEPT !.addLeadingZero = checked]
  /\ last' = Other
  /\ UNCHANGED <<phoneNumber, result, countryConfigs, defaultConfig>>

WithConfigNoCountry(configs, cfg) ==
  [k \in DOMAIN configs \cup {cfg.country} |->
     IF k = cfg.country
     THEN [trunkPrefix |-> cfg.trunkPrefix, addLeadingZero |-> cfg.addLeadingZero]
     ELSE configs[k]]

\* { ...countryConfigs, [config.country]: config }
WithConfig(configs, cfg) ==
  [k \in DOMAIN configs \cup {cfg.country} |-> IF k = cfg.country THEN cfg ELSE configs[k]]

handleAddConfig ==
  /\ countryConfigs' = WithConfig(countryConfigs, config)
  /\ last' = Other
  /\ UNCHANGED <<phoneNumber, result, config, defaultConfig>>

\* delete newConfigs[country]
WithoutConfig(configs, country) == [k \in DOMAIN configs \ {country} |-> configs[k]]

DefaultKept(default, country) == default

\* if (defaultConfig === country) setDefaultConfig('EG')
DefaultAfterRemove(default, country) ==
  IF default = country THEN FallbackCountry ELSE default

\* the Remove button is rendered once per stored entry
handleRemoveConfig(country) ==
  /\ country \in DOMAIN countryConfigs
  /\ countryConfigs' = WithoutConfig(countryConfigs, country)
  /\ defaultConfig' = DefaultAfterRemove(defaultConfig, country)
  /\ last' = [op |-> "remove", country |-> country, previousDefault |-> defaultConfig]
  /\ UNCHANGED <<phoneNumber, result, config>>

AllCountriesSelectable(configs) == Countries

\* the default-country Select lists Object.keys(countryConfigs)
SelectableDefaults(configs) == DOMAIN configs

setDefaultConfig ==
  /\ \E value \in SelectableDefaults(countryConfigs) : defaultConfig' = value
  /\ last' = Other
  /\ UNCHANGED <<phoneNumber, result, config, countryConfigs>>

RemoveSome == \E country \in Countries : handleRemoveConfig(country)

Next ==
  \/ handlePhoneNumberChange
  \/ handleProcess
  \/ setConfigCountry
  \/ setConfigTrunkPrefix
  \/ setConfigAddLeadingZero
  \/ handleAddConfig
  \/ RemoveSome
  \/ setDefaultConfig

Spec == Init /\ [][Next]_vars

(***************************************************************************)
(* phoneEngine on its own: the arguments are drawn from bounded sets and   *)
(* one step applies the function.  The registry argument holds entries of  *)
(* the declared CountryConfig shape (trunkPrefix, addLeadingZero) as well  *)
(* as entries of the shape handleAddConfig stores (with a country field).  *)
(***************************************************************************)
OptionFields == {"country", "trunkPrefix", "addLeadingZero"}
Restrict(obj, fields) == [f \in fields |-> obj[f]]
OptionObjects ==
  {Restrict(o, fields) :
     o \in [country : Countries, trunkPrefix : {<<"9">>}, addLeadingZero : {TRUE}],
     fields \in SUBSET OptionFields}

EngineEntries(key) ==
  [trunkPrefix : TrunkPrefixes, addLeadingZero : BOOLEAN]
    \cup [country : {key}, trunkPrefix : TrunkPrefixes, addLeadingZero : BOOLEAN]

EngineConfigsOver(keys) ==
  {configs \in [keys -> UNION {EngineEntries(key) : key \in keys}] :
     \A key \in keys : configs[key] \in EngineEntries(key)}

EngineConfigs == UNION {EngineConfigsOver(keys) : keys \in SUBSET Countries}

EngineInit ==
  /\ phoneNumber \in RawStrings
  /\ countryConfigs \in EngineConfigs
  /\ last \in [op : {"pending"}, options : OptionObjects, parsed : ParseOutcomes(NationalNumbers)]
  /\ result = Null
  /\ config = [country |-> "EG", trunkPrefix |-> EmptyString, addLeadingZero |-> FALSE]
  /\ defaultConfig = "EG"

EngineCall ==
  /\ last.op = "pending"
  /\ result' = phoneEngine(phoneNumber, last.options, countryConfigs, last.parsed)
  /\ last' = [last EXCEPT !.op = "call"]
  /\ UNCHANGED <<phoneNumber, config, countryConfigs, defaultConfig>>

EngineNext == EngineCall

SpecEngine == EngineInit /\ [][EngineNext]_vars

(***************************************************************************)
(* Properties.                                                             *)
(***************************************************************************)
\* The last step was a call of phoneEngine; its arguments are phoneNumber,
\* last.options and countryConfigs, and the parser answered last.parsed.
Called == last.op = "call"
CalledWithNumber == Called /\ last.parsed.kind = "number"
ParserFailed == Called /\ last.parsed.kind \in {"throws", "undefined"}
ConfigInForce == EffectiveConfig(last.options, countryConfigs, last.parsed)
Dashes == <<"-", "-", "-">>
IsResultObject(r) == DOMAIN r = {"e164", "forAsterisk", "isValid"}
WithoutSpaces(s) == SelectSeq(s, LAMBDA c : c # " ")
WithoutWhitespace(s) == SelectSeq(s, LAMBDA c : c \notin Whitespace)
ZeroAdjusted(addLeadingZero, nationalNumber) ==
  IF addLeadingZero = TRUE /\ Head(nationalNumber) # "0"
  THEN <<"0">> \o nationalNumber
  ELSE nationalNumber

\* C1 as stated: every call returns a result object, and malformed input (the
\* parser rejects it, returns no number, or returns a number that is not valid
\* and possible) yields isValid = false, e164 = "---" and dialFormat = "".
C1_AsStated ==
  Called =>
    /\ IsResultObject(result)
    /\ (ParserFailed \/ (CalledWithNumber /\ ~(last.parsed.valid /\ last.parsed.possible)))
         => result = [e164 |-> Dashes, forAsterisk |-> EmptyString, isValid |-> FALSE]

\* C1 amended: every call returns a result object with isValid = false on
\* malformed input; the parser's failure gives e164 = "" and dialFormat = "",
\* a number that is not valid and possible gives e164 = "---" and dialFormat =
\* the raw input with its space characters removed.
C1_FailSoft ==
  Called =>
    /\ IsResultObject(result)
    /\ ParserFailed =>
         result = [e164 |-> EmptyString, forAsterisk |-> EmptyString, isValid |-> FALSE]
    /\ (CalledWithNumber /\ ~(last.parsed.valid /\ last.parsed.possible)) =>
         result = [e164 |-> Dashes, forAsterisk |-> WithoutSpaces(phoneNumber),
                   isValid |-> FALSE]

C1_Witness ==
  /\ CalledWithNumber
  /\ last.parsed.valid /\ ~last.parsed.possible
  /\ last.parsed.country = "EG" /\ last.options = [country |-> "EG"]
  /\ countryConfigs = EmptyObject
  /\ phoneNumber = <<"1", " ">>
  /\ result = [e164 |-> Dashes, forAsterisk |-> <<"1">>, isValid |-> FALSE]

\* C2: when the parser throws or returns no number, the call returns exactly
\* {e164: "", dialFormat: "", isValid: false}, whatever the caller config and
\* the registry hold, and no error reaches the caller.
C2_ParserFailureAbsorbed ==
  ParserFailed =>
    /\ result # Raised
    /\ result.e164 = EmptyString
    /\ result.forAsterisk = EmptyString
    /\ result.isValid = FALSE
    /\ IsResultObject(result)

C2_Witness ==
  /\ Called /\ last.parsed.kind = "throws"
  /\ last.options = [country |-> "US", trunkPrefix |-> <<"9">>, addLeadingZero |-> TRUE]
  /\ "EG" \in DOMAIN countryConfigs
  /\ phoneNumber = <<"1", "1">>
  /\ result.isValid = FALSE /\ result.e164 = EmptyString

\* C3: when the detected country is a key of the registry, the result is the
\* one computed from that registry entry alone: it is the same for every
\* caller config, and its dial format is built from the entry's trunkPrefix,
\* addLeadingZero and country only.
C3_RegistryOverride ==
  (CalledWithNumber /\ last.parsed.country \in DOMAIN countryConfigs) =>
    LET entry == countryConfigs[last.parsed.country]
        isValid == last.parsed.valid /\ last.parsed.possible
        adjusted == ZeroAdjusted(entry.addLeadingZero, last.parsed.nationalNumber)
    IN /\ \A options \in OptionObjects :
            phoneEngine(phoneNumber, options, countryConfigs, last.parsed) = result
       /\ result.forAsterisk =
            IF isValid /\ "country" \in DOMAIN entry /\ entry.country = last.parsed.country
            THEN entry.trunkPrefix \o adjusted
            ELSE WithoutSpaces(phoneNumber)

C3_Witness ==
  /\ CalledWithNumber
  /\ last.options = [country |-> "EG", trunkPrefix |-> <<"9">>, addLeadingZero |-> TRUE]
  /\ last.parsed.country = "US" /\ last.parsed.valid /\ last.parsed.possible
  /\ last.parsed.nationalNumber = <<"1", "0">>
  /\ DOMAIN countryConfigs = {"US"}
  /\ countryConfigs["US"] = [country |-> "US", trunkPrefix |-> EmptyString, addLeadingZero |-> FALSE]
  /\ result.forAsterisk = <<"1", "0">>

\* C4 as stated: a valid and possible number whose detected country differs
\* from the country of the config in force gets the raw input with every
\* whitespace character removed as its dial format.
C4_AsStated ==
  (CalledWithNumber /\ last.parsed.valid /\ last.parsed.possible
     /\ last.parsed.country # Get(ConfigInForce, "country")) =>
    result.forAsterisk = WithoutWhitespace(phoneNumber)

\* C4 amended: a valid and possible number whose detected country differs from
\* the country of the config in force gets the raw input with its space
\* characters (U+0020 only) removed, whatever trunkPrefix and addLeadingZero
\* are; the nationalized candidate is the dial format only when the number is
\* valid and possible and the countries are equal.
C4_CountryMatchGating ==
  CalledWithNumber =>
    LET isValid == last.parsed.valid /\ last.parsed.possible
        matches == last.parsed.country = Get(ConfigInForce, "country")
        adjusted == ZeroAdjusted(ConfigInForce.addLeadingZero, last.parsed.nationalNumber)
    IN /\ ~(isValid /\ matches) => result.forAsterisk = WithoutSpaces(phoneNumber)
       /\ (isValid /\ matches) => result.forAsterisk = ConfigInForce.trunkPrefix \o adjusted

C4_Witness ==
  /\ CalledWithNumber
  /\ last.parsed.valid /\ last.parsed.possible /\ last.parsed.country = "US"
  /\ last.options = [country |-> "EG", trunkPrefix |-> <<"9">>, addLeadingZero |-> TRUE]
  /\ "US" \notin DOMAIN countryConfigs
  /\ phoneNumber = <<" ", " ">>
  /\ result.forAsterisk = EmptyString /\ result.isValid

\* C5: caller config names country C, the registry holds C -> {trunkPrefix,
\* addLeadingZero} with exactly these two fields, and the parser resolves the
\* number to C as valid and possible: then isValid = true, e164 is the E.164
\* form and dialFormat = trunkPrefix followed by the zero-adjusted national
\* number.
C5_RegistryEntryNationalizes ==
  (/\ CalledWithNumber
   /\ last.parsed.valid /\ last.parsed.possible
   /\ last.parsed.country \in DOMAIN countryConfigs
   /\ DOMAIN countryConfigs[last.parsed.country] = {"trunkPrefix", "addLeadingZero"}
   /\ Get(last.options, "country") = last.parsed.country) =>
    LET entry == countryConfigs[last.parsed.country]
    IN /\ result.isValid = TRUE
       /\ result.e164 = <<"+">> \o CountryCallingCode(last.parsed.country)
                           \o last.parsed.nationalNumber
       /\ result.forAsterisk =
            entry.trunkPrefix \o ZeroAdjusted(entry.addLeadingZero, last.parsed.nationalNumber)

\* C8: with addLeadingZero = true the processed number is the national number
\* itself when it starts with "0" and "0" followed by it otherwise; the step
\* applied to its own output changes nothing; with addLeadingZero = false the
\* processed number is the national number.  The dial format of a valid number
\* of the config's country is the trunk prefix followed by that number.
C8_LeadingZeroIdempotent ==
  CalledWithNumber =>
    LET national == last.parsed.nationalNumber
        processed == ProcessedNumber(ConfigInForce, national)
        addZero == ConfigInForce.addLeadingZero
    IN /\ (addZero /\ Head(national) = "0") => processed = national
       /\ (addZero /\ Head(national) # "0") => processed = <<"0">> \o national
       /\ ~addZero => processed = national
       /\ ProcessedNumber(ConfigInForce, processed) = processed
       /\ Len(processed) <= Len(national) + 1
       /\ (result.isValid /\ last.parsed.country = Get(ConfigInForce, "country")) =>
            result.forAsterisk = ConfigInForce.trunkPrefix \o processed

C8_Witness ==
  /\ CalledWithNumber
  /\ last.parsed.nationalNumber = <<"0", "1">>
  /\ last.parsed.valid /\ last.parsed.possible /\ last.parsed.country = "EG"
  /\ DOMAIN countryConfigs = {"EG"}
  /\ countryConfigs["EG"] = [country |-> "EG", trunkPrefix |-> EmptyString, addLeadingZero |-> TRUE]
  /\ result.forAsterisk = <<"0", "1">>

\* C9: when the parser returns a number, isValid is (valid and possible), e164
\* is the E.164 form exactly when isValid is true and "---" exactly when it is
\* false; no result has isValid = true with e164 "---" or "".
C9_ValidityAndE164 ==
  /\ CalledWithNumber =>
       /\ result.isValid = (last.parsed.valid /\ last.parsed.possible)
       /\ result.isValid =>
            result.e164 = <<"+">> \o CountryCallingCode(last.parsed.country)
                            \o last.parsed.nationalNumber
       /\ ~result.isValid => result.e164 = Dashes
       /\ result.isValid <=> result.e164 # Dashes
  /\ (Called /\ result.isValid) => result.e164 \notin {Dashes, EmptyString}

C9_Witness ==
  /\ CalledWithNumber
  /\ ~last.parsed.valid /\ last.parsed.possible
  /\ last.parsed.country = "US" /\ last.parsed.nationalNumber = <<"1", "1">>
  /\ result.e164 = Dashes /\ ~result.isValid

\* C6: after remove(country) with country equal to the current default
\* country the default is the fallback "EG"; after remove(country) with
\* another country the default is unchanged.  The entry is gone either way.
C6_DefaultReset ==
  last.op = "remove" =>
    /\ last.country \notin DOMAIN countryConfigs
    /\ last.country = last.previousDefault => defaultConfig = "EG"
    /\ last.country # last.previousDefault => defaultConfig = last.previousDefault

C6_Witness ==
  /\ last.op = "remove"
  /\ last.country = "US" /\ last.previousDefault = "US"
  /\ defaultConfig = "EG"
  /\ "EG" \in DOMAIN countryConfigs

\* C7: in every reachable state the default country is a key of the registry
\* or the fallback "EG".
C7_DefaultNamesEntryOrFallback ==
  defaultConfig \in DOMAIN countryConfigs \cup {"EG"}

C7_Witness ==
  /\ last.op = "remove"
  /\ last.country = "US" /\ last.previousDefault = "US"
  /\ countryConfigs = EmptyObject
  /\ defaultConfig = "EG"

EntriesCarryTheirKey ==
  \A k \in DOMAIN countryConfigs : Get(countryConfigs[k], "country") = k

Nationalizes ==
  /\ CalledWithNumber
  /\ last.parsed.valid /\ last.parsed.possible
  /\ last.parsed.country \in DOMAIN countryConfigs

NationalizedDialFormat ==
  LET entry == countryConfigs[last.parsed.country]
  IN Get(entry, "trunkPrefix")
       \o ZeroAdjusted(Get(entry, "addLeadingZero"), last.parsed.nationalNumber)

PassesDefaultEntry ==
  last.options = IF defaultConfig \in DOMAIN countryConfigs
                 THEN countryConfigs[defaultConfig]
                 ELSE EmptyObject

\* C10 as stated: every entry stored under key k has country = k, and a
\* Normalize action returns trunkPrefix + processed national number when the
\* number is valid and possible and its country is a key of the registry, and
\* the raw input with spaces removed in every other case.
C10_AsStated ==
  /\ EntriesCarryTheirKey
  /\ Called =>
       /\ result # Null
       /\ PassesDefaultEntry
       /\ result.forAsterisk =
            IF Nationalizes THEN NationalizedDialFormat ELSE WithoutSpaces(phoneNumber)

\* C10 amended: every entry stored under key k has country = k, and a
\* Normalize action returns trunkPrefix + processed national number when the
\* number is valid and possible and its country is a key of the registry, the
\* raw input with spaces removed when the parser returned a number in any
\* other case, and the empty string when the parser threw or returned nothing.
C10_DemoNormalize ==
  /\ EntriesCarryTheirKey
  /\ Called =>
       /\ result # Null
       /\ PassesDefaultEntry
       /\ result.forAsterisk =
            IF Nationalizes THEN NationalizedDialFormat
            ELSE IF CalledWithNumber THEN WithoutSpaces(phoneNumber)
            ELSE EmptyString

C10_Witness ==
  /\ Nationalizes
  /\ last.parsed.country = "US" /\ last.parsed.nationalNumber = <<"1", "0">>
  /\ defaultConfig = "EG" /\ DOMAIN countryConfigs = {"EG", "US"}
  /\ countryConfigs["US"] = [country |-> "US", trunkPrefix |-> <<"9">>, addLeadingZero |-> TRUE]
  /\ countryConfigs["EG"].trunkPrefix = EmptyString
  /\ phoneNumber = <<"1", " ", "0">>
  /\ result.forAsterisk = <<"9", "0", "1", "0">>

====
